---- MODULE Spec2Model ----
(***************************************************************************)
(* A model of wallabag_tiny_cli.py: one invocation of the command line     *)
(* tool is a process that walks through __main__, get_wallabag,            *)
(* get_oauth_token, the OAuth exchange and the dispatched command.  The    *)
(* token cache file and the wall clock are shared by all invocations.      *)
(*                                                                         *)
(* Text is a sequence of atoms.  An atom is either one character that json *)
(* treats specially (quote, backslash, brace, colon, comma, blank, digit)  *)
(* or a chunk of ordinary characters that json copies unchanged.           *)
(***************************************************************************)
EXTENDS Integers, Sequences, FiniteSets, TLC

\* ------------------------------------------------------------- bounds

\* The clock counts half seconds, from 2 (one second) to MaxClock.
MaxClock == 6
\* The server grants a lifetime (expires_in) of 1..MaxExpiresIn seconds.
MaxExpiresIn == 2
\* Invocations one after the other in the sequential specification.
MaxRuns == 2

\* ------------------------------------------------------- python values

\* A python scalar: a str (its atoms in s) or an int (in n).
PyStr(s) == [t |-> "str", s |-> s, n |-> 0]

PyInt(n) == [t |-> "int", s |-> <<>>, n |-> n]

\* A python dict is a sequence of <<key, value>> pairs in insertion order.
RECURSIVE DictHas(_, _)
DictHas(d, k) ==
    IF d = <<>> THEN FALSE
    ELSE d[Len(d)][1] = k \/ DictHas(SubSeq(d, 1, Len(d) - 1), k)

\* d[k] for a key the dict has: the last pair with that key.
RECURSIVE DictGet(_, _)
DictGet(d, k) ==
    IF d[Len(d)][1] = k THEN d[Len(d)][2]
    ELSE DictGet(SubSeq(d, 1, Len(d) - 1), k)

\* str(x)
RECURSIVE EncodeInt(_)
EncodeInt(n) ==
    LET Digits == <<"0", "1", "2", "3", "4", "5", "6", "7", "8", "9">>
    IN  IF n < 0 THEN <<"-">> \o EncodeInt(-n)
        ELSE IF n < 10 THEN <<Digits[n + 1]>>
        ELSE EncodeInt(n \div 10) \o <<Digits[(n % 10) + 1]>>

PyToStr(v) == IF v.t = "str" THEN v.s ELSE EncodeInt(v.n)

\* ------------------------------------------------------------ json.dump

\* json.dumps, had it copied the characters of a string unescaped.
EncodeCharsRaw(s) == s

\* The escapes json.dumps writes inside a string literal.
RECURSIVE EncodeChars(_)
EncodeChars(s) ==
    IF s = <<>> THEN <<>>
    ELSE (IF Head(s) \in {"\"", "\\"} THEN <<"\\", Head(s)>> ELSE <<Head(s)>>)
         \o EncodeChars(Tail(s))

EncodeString(s) == <<"\"">> \o EncodeChars(s) \o <<"\"">>

EncodeValue(v) == IF v.t = "str" THEN EncodeString(v.s) ELSE EncodeInt(v.n)

RECURSIVE EncodePairs(_)
EncodePairs(d) ==
    IF d = <<>> THEN <<>>
    ELSE EncodeString(d[1][1]) \o <<":", " ">> \o EncodeValue(d[1][2])
         \o (IF Len(d) > 1 THEN <<",", " ">> ELSE <<>>)
         \o EncodePairs(Tail(d))

\* json.dumps(d) of a dict of scalars, with the default separators.
JsonDumps(d) == <<"{">> \o EncodePairs(d) \o <<"}">>

\* ------------------------------------------------------------ json.load

DigitValue(a) ==
    CASE a = "0" -> 0 [] a = "1" -> 1 [] a = "2" -> 2 [] a = "3" -> 3
      [] a = "4" -> 4 [] a = "5" -> 5 [] a = "6" -> 6 [] a = "7" -> 7
      [] a = "8" -> 8 [] a = "9" -> 9 [] OTHER -> -1

IsDigit(a) == DigitValue(a) >= 0

RECURSIVE SkipWs(_, _)
SkipWs(s, i) == IF i <= Len(s) /\ s[i] = " " THEN SkipWs(s, i + 1) ELSE i

\* The string literal whose opening quote is before position i.
RECURSIVE ScanString(_, _, _)
ScanString(s, i, acc) ==
    IF i > Len(s) THEN [ok |-> FALSE, v |-> PyStr(acc), next |-> i]
    ELSE IF s[i] = "\"" THEN [ok |-> TRUE, v |-> PyStr(acc), next |-> i + 1]
    ELSE IF s[i] = "\\"
    THEN IF i + 1 <= Len(s) /\ s[i + 1] \in {"\"", "\\"}
         THEN ScanString(s, i + 2, Append(acc, s[i + 1]))
         ELSE [ok |-> FALSE, v |-> PyStr(acc), next |-> i]
    ELSE ScanString(s, i + 1, Append(acc, s[i]))

\* The digits from position i on, acc being the value of those before.
RECURSIVE ScanInt(_, _, _)
ScanInt(s, i, acc) ==
    IF i <= Len(s) /\ IsDigit(s[i])
    THEN ScanInt(s, i + 1, 10 * acc + DigitValue(s[i]))
    ELSE [ok |-> TRUE, v |-> PyInt(acc), next |-> i]

ScanValue(s, i) ==
    IF i > Len(s) THEN [ok |-> FALSE, v |-> PyInt(0), next |-> i]
    ELSE IF s[i] = "\"" THEN ScanString(s, i + 1, <<>>)
    ELSE IF IsDigit(s[i]) THEN ScanInt(s, i, 0)
    ELSE IF s[i] = "-" /\ i + 1 <= Len(s) /\ IsDigit(s[i + 1])
    THEN LET r == ScanInt(s, i + 1, 0)
         IN  [ok |-> TRUE, v |-> PyInt(-r.v.n), next |-> r.next]
    ELSE [ok |-> FALSE, v |-> PyInt(0), next |-> i]

\* The members of an object from position i (a key) up to its closing brace.
RECURSIVE ScanPairs(_, _, _)
ScanPairs(s, i, acc) ==
    LET bad == [ok |-> FALSE, v |-> acc, next |-> i]
        k0 == SkipWs(s, i)
    IN  IF k0 > Len(s) \/ s[k0] # "\"" THEN bad
        ELSE LET key   == ScanString(s, k0 + 1, <<>>)
                 colon == SkipWs(s, key.next)
             IN  IF ~key.ok \/ colon > Len(s) \/ s[colon] # ":" THEN bad
                 ELSE LET val == ScanValue(s, SkipWs(s, colon + 1))
                          sep == SkipWs(s, val.next)
                          got == Append(acc, <<key.v.s, val.v>>)
                      IN  IF ~val.ok \/ sep > Len(s) THEN bad
                          ELSE IF s[sep] = "," THEN ScanPairs(s, sep + 1, got)
                          ELSE IF s[sep] = "}"
                          THEN [ok |-> TRUE, v |-> got, next |-> sep + 1]
                          ELSE bad

\* json.loads(s) for a document that is an object of scalars: ok is FALSE
\* where json raises JSONDecodeError (an empty or cut document, text after
\* the closing brace, anything that is not an object of scalars).
JsonLoads(s) ==
    LET bad   == [ok |-> FALSE, v |-> <<>>]
        open  == SkipWs(s, 1)
        first == SkipWs(s, open + 1)
    IN  IF open > Len(s) \/ s[open] # "{" THEN bad
        ELSE IF first <= Len(s) /\ s[first] = "}"
        THEN IF SkipWs(s, first + 1) = Len(s) + 1
             THEN [ok |-> TRUE, v |-> <<>>] ELSE bad
        ELSE LET r == ScanPairs(s, open + 1, <<>>)
             IN  IF r.ok /\ SkipWs(s, r.next) = Len(s) + 1
                 THEN [ok |-> TRUE, v |-> r.v] ELSE bad

\* -------------------------------------------------- the program's helpers

\* An optional value: <<>> is None, <<x>> is x.
None == <<>>

Some(x) == <<x>>

\* `not value` for an optional str: None and the empty str are falsy.
Falsy(value) == value = None \/ value[1] = <<>>

\* int(round(time.time())) with the clock at c half seconds: python rounds a
\* half to the even neighbour.
UnixTimestamp(c) ==
    IF c % 2 = 0 THEN c \div 2
    ELSE IF (c \div 2) % 2 = 0 THEN c \div 2 ELSE (c \div 2) + 1

\* get_env_var, had it tested `value is None`: an empty value passes.
GetEnvVarNoneOnly(environ, var, default) ==
    LET value == IF environ[var] # None THEN environ[var] ELSE default
    IN  [exit    |-> value = None,
         value   |-> value,
         message |-> <<"Missing required environment variable: WALLABAG_", var>>]

\* get_env_var(var, default): the value, and whether it prints the message
\* and exits instead of returning.
GetEnvVar(environ, var, default) ==
    LET value == IF environ[var] # None THEN environ[var] ELSE default
    IN  [exit    |-> Falsy(value),
         value   |-> value,
         message |-> <<"Missing required environment variable: WALLABAG_", var>>]

\* print_usage_and_exit_unless(*condition): `condition` is the tuple of the
\* positional arguments, and `not condition` is true of the empty tuple only.
PrintUsageAndExitUnless(condition) == Len(condition) = 0

UsageText == <<"Usage:", "wallabag_tiny_cli.py add <url>">>

DefaultUrl == <<"https://app.wallabag.it">>

OAuthPath == "/oauth/v2/token"

EntriesPath == "/api/entries"

\* Wallabag._post, had it left out lines 83-84.
PostWithoutBearer(url, data, tok) ==
    [url     |-> url,
     body    |-> JsonDumps(data),
     headers |-> << <<"Content-Type", <<"application/json">>>> >>]

\* The request Wallabag._post(url, data, token) sends.
Post(url, data, tok) ==
    [url     |-> url,
     body    |-> JsonDumps(data),
     headers |-> << <<"Content-Type", <<"application/json">>>> >>
                 \o (IF ~Falsy(tok)
                     THEN << <<"Authorization", <<"Bearer ">> \o tok[1]>> >>
                     ELSE <<>>)]

\* The dict get_oauth_token_and_expiration_from_api posts, lines 56-62.
GrantData(id, secret, user, password) ==
    << <<<<"grant_type">>, PyStr(<<"password">>)>>,
       <<<<"client_id">>, PyStr(id)>>,
       <<<<"client_secret">>, PyStr(secret)>>,
       <<<<"username">>, PyStr(user)>>,
       <<<<"password">>, PyStr(password)>> >>

\* The dict the exchange returns, lines 65-70.
TokenRecord(access_token, expiration) ==
    << <<<<"token">>, PyStr(access_token)>>,
       <<<<"expiration">>, PyInt(expiration)>> >>

\* Line 104.
NoTokenData == << <<<<"expiration">>, PyInt(0)>> >>

\* Line 112, had it compared the other way round.
IsExpiredInverted(token_data, now) ==
    DictGet(token_data, <<"expiration">>).n > now

\* Line 112: the cached token counts as expired.
IsExpired(token_data, now) ==
    DictGet(token_data, <<"expiration">>).n < now

\* getattr(wallabag, command) and the parameters signature() counts, for the
\* commands of the modelled command lines: a bound method, or no attribute.
Attribute(command) ==
    CASE command = "add" -> [found |-> TRUE, params |-> 1]
      [] command = "get_oauth_token_and_expiration_from_api"
           -> [found |-> TRUE, params |-> 1]
      [] OTHER -> [found |-> FALSE, params |-> 0]

\* A write of `new` to a file opened for appending.
OverwriteAppend(old, new) == old \o new

\* A write of `new` at offset 0 of a file holding `old`: what lies beyond
\* the written bytes stays.
Overwrite(old, new) == new \o SubSeq(old, Len(new) + 1, Len(old))

\* ------------------------------------------------------------ the inputs

Procs == {1, 2}

Url1 == <<"https://example.com/article">>

Url2 == <<"https://example.com/?q=", "\"", "x", "\"">>

\* The command lines (sys.argv[1:]).
ArgvChoices ==
    { <<>>, <<"add">>, <<"add", Url1>>, <<"add", Url2>>, <<"add", Url1, Url2>>,
      <<"foo", Url1>>, <<"get_oauth_token_and_expiration_from_api", Url1>> }

EnvNames == {"URL", "CLIENT_ID", "CLIENT_SECRET", "USERNAME", "PASSWORD"}

AllSet == [v \in EnvNames |-> IF v = "URL" THEN None ELSE Some(<<"x">>)]

\* The environments: everything set, a server url of one's own, an empty
\* server url, and required variables unset or empty.
EnvChoices ==
    { AllSet,
      [AllSet EXCEPT !["URL"] = Some(<<"https://wb.example">>)],
      [AllSet EXCEPT !["URL"] = Some(<<>>)],
      [AllSet EXCEPT !["CLIENT_ID"] = None],
      [AllSet EXCEPT !["PASSWORD"] = None],
      [AllSet EXCEPT !["CLIENT_SECRET"] = Some(<<>>), !["USERNAME"] = None] }

\* The access tokens the server grants: their atoms are single characters.
ServerTokens == { <<"a">>, <<"b", "\"">> }

\* What the server answers to the token request: a failure (no answer, or a
\* status urlopen raises on), or a grant.
TokenResponses ==
    { [ok |-> FALSE, access_token |-> <<>>, expires_in |-> 0] }
    \cup { [ok |-> TRUE, access_token |-> t, expires_in |-> e] :
             t \in ServerTokens, e \in 1..MaxExpiresIn }

NoFile == [exists |-> FALSE, data |-> <<>>]

FileOf(data) == [exists |-> TRUE, data |-> data]

\* The cache file before the first invocation: absent, left by an earlier
\* invocation, cut to nothing, or an object that lacks a field.
InitFiles ==
    { NoFile, FileOf(<<>>),
      FileOf(JsonDumps(<< <<<<"token">>, PyStr(<<"c">>)>> >>)),
      FileOf(JsonDumps(<< <<<<"expiration">>, PyInt(MaxClock)>> >>)) }
    \cup { FileOf(JsonDumps(TokenRecord(<<"c">>, e))) : e \in 1..3 }

\* ------------------------------------------------------------- the state

VARIABLES
    clock,        \* the wall clock, in half seconds
    file,         \* /tmp/wallabag_token.json
    written,      \* the last record json.dump wrote and the process that did
    pc,           \* where each invocation stands
    runs,         \* invocations started by each process
    argv,         \* sys.argv[1:]
    env,          \* os.environ
    wallabagUrl,  \* wallabag_url
    tokenData,    \* token_data of get_oauth_token
    token,        \* Wallabag.token, None before get_oauth_token returns
    phase,        \* "token" in get_oauth_token, "command" in the command
    log,          \* the file opens and http requests of the invocation
    exitStatus,   \* the exit status, None while running
    stdout,       \* what the invocation printed
    exc,          \* the uncaught exception that ended it, "" if none
    fileAtStart,  \* the cache file when the invocation started
    fileRead,     \* what line 110 read, None if nothing
    readWritten,  \* `written` when line 110 read the file
    nowAtCheck    \* the timestamp line 112 compared with, None before it

vars == <<clock, file, written, pc, runs, argv, env, wallabagUrl, tokenData,
          token, phase, log, exitStatus, stdout, exc, fileAtStart, fileRead,
          readWritten, nowAtCheck>>

shared == <<clock, file, written>>

inputs == <<runs, argv, env>>

\* ------------------------------------------------------------ the events

FileEvent(op, ph) ==
    [op |-> op, phase |-> ph, url |-> <<>>, body |-> <<>>, headers |-> <<>>,
     ok |-> TRUE]

HttpEvent(request, ph, ok) ==
    [op |-> "POST", phase |-> ph, url |-> request.url, body |-> request.body,
     headers |-> request.headers, ok |-> ok]

IsHttp(e) == e.op = "POST"

IsTokenRequest(e) == IsHttp(e) /\ e.url[Len(e.url)] = OAuthPath

IsEntriesRequest(e) == IsHttp(e) /\ e.url[Len(e.url)] = EntriesPath

\* ---------------------------------------------------------------- Init

Init ==
    /\ clock = 2
    /\ file \in InitFiles
    /\ written = None
    /\ pc = [p \in Procs |-> "idle"]
    /\ runs = [p \in Procs |-> 0]
    /\ argv = [p \in Procs |-> <<>>]
    /\ env = [p \in Procs |-> AllSet]
    /\ wallabagUrl = [p \in Procs |-> <<>>]
    /\ tokenData = [p \in Procs |-> NoTokenData]
    /\ token = [p \in Procs |-> None]
    /\ phase = [p \in Procs |-> "token"]
    /\ log = [p \in Procs |-> <<>>]
    /\ exitStatus = [p \in Procs |-> None]
    /\ stdout = [p \in Procs |-> <<>>]
    /\ exc = [p \in Procs |-> ""]
    /\ fileAtStart = [p \in Procs |-> NoFile]
    /\ fileRead = [p \in Procs |-> None]
    /\ readWritten = [p \in Procs |-> None]
    /\ nowAtCheck = [p \in Procs |-> None]

\* ------------------------------------------------- how a step ends

\* The step goes on to `next`.
Goto(p, next) ==
    /\ pc' = [pc EXCEPT ![p] = next]
    /\ UNCHANGED <<exitStatus, stdout, exc>>

\* sys.exit(status) after print(message).
SysExit(p, message, status) ==
    /\ pc' = [pc EXCEPT ![p] = "done"]
    /\ exitStatus' = [exitStatus EXCEPT ![p] = Some(status)]
    /\ stdout' = [stdout EXCEPT ![p] = Append(@, message)]
    /\ UNCHANGED exc

\* An exception nothing catches: the traceback goes to stderr, the status is 1.
Raise(p, name) ==
    /\ pc' = [pc EXCEPT ![p] = "done"]
    /\ exitStatus' = [exitStatus EXCEPT ![p] = Some(1)]
    /\ exc' = [exc EXCEPT ![p] = name]
    /\ UNCHANGED stdout

\* The module's last statement returned.
Finish(p) ==
    /\ pc' = [pc EXCEPT ![p] = "done"]
    /\ exitStatus' = [exitStatus EXCEPT ![p] = Some(0)]
    /\ UNCHANGED <<stdout, exc>>

\* ------------------------------------------------------------- actions

\* A process is started with a command line and an environment.
Start(p, argvs, envs, maxRuns) ==
    /\ pc[p] \in {"idle", "done"}
    /\ runs[p] < maxRuns
    /\ \E a \in argvs, e \in envs :
          /\ argv' = [argv EXCEPT ![p] = a]
          /\ env' = [env EXCEPT ![p] = e]
    /\ runs' = [runs EXCEPT ![p] = @ + 1]
    /\ pc' = [pc EXCEPT ![p] = "main"]
    /\ wallabagUrl' = [wallabagUrl EXCEPT ![p] = <<>>]
    /\ tokenData' = [tokenData EXCEPT ![p] = NoTokenData]
    /\ token' = [token EXCEPT ![p] = None]
    /\ phase' = [phase EXCEPT ![p] = "token"]
    /\ log' = [log EXCEPT ![p] = <<>>]
    /\ exitStatus' = [exitStatus EXCEPT ![p] = None]
    /\ stdout' = [stdout EXCEPT ![p] = <<>>]
    /\ exc' = [exc EXCEPT ![p] = ""]
    /\ fileAtStart' = [fileAtStart EXCEPT ![p] = file]
    /\ fileRead' = [fileRead EXCEPT ![p] = None]
    /\ readWritten' = [readWritten EXCEPT ![p] = None]
    /\ nowAtCheck' = [nowAtCheck EXCEPT ![p] = None]
    /\ UNCHANGED shared

\* Lines 127-131.  len(args) counts the program's name.
Main(p) ==
    /\ pc[p] = "main"
    /\ IF PrintUsageAndExitUnless(<<Len(argv[p]) + 1 > 2>>)
       THEN SysExit(p, UsageText, 1)
       ELSE IF Len(argv[p]) < 1
       THEN Raise(p, "IndexError")
       ELSE IF PrintUsageAndExitUnless(<<argv[p][1] \in {"add"}>>)
       THEN SysExit(p, UsageText, 1)
       ELSE Goto(p, "get_wallabag")
    /\ UNCHANGED <<shared, inputs, wallabagUrl, tokenData, token, phase, log,
                   fileAtStart, fileRead, readWritten, nowAtCheck>>

\* Line 121.
GetWallabag(p) ==
    /\ pc[p] = "get_wallabag"
    /\ LET url == GetEnvVar(env[p], "URL", Some(DefaultUrl))
       IN  IF url.exit
           THEN SysExit(p, url.message, 1) /\ UNCHANGED wallabagUrl
           ELSE /\ Goto(p, "exists")
                /\ wallabagUrl' = [wallabagUrl EXCEPT ![p] = url.value[1]]
    /\ UNCHANGED <<shared, inputs, tokenData, token, phase, log,
                   fileAtStart, fileRead, readWritten, nowAtCheck>>

\* Line 108: os.path.exists.
CacheExists(p) ==
    /\ pc[p] = "exists"
    /\ Goto(p, IF file.exists THEN "load" ELSE "check")
    /\ UNCHANGED <<shared, inputs, wallabagUrl, tokenData, token, phase, log,
                   fileAtStart, fileRead, readWritten, nowAtCheck>>

\* Lines 109-110: open for reading and json.load.
CacheLoad(p) ==
    /\ pc[p] = "load"
    /\ log' = [log EXCEPT ![p] = Append(@, FileEvent("read", phase[p]))]
    /\ fileRead' = [fileRead EXCEPT ![p] = Some(file.data)]
    /\ readWritten' = [readWritten EXCEPT ![p] = written]
    /\ LET loaded == JsonLoads(file.data)
       IN  IF loaded.ok
           THEN /\ Goto(p, "check")
                /\ tokenData' = [tokenData EXCEPT ![p] = loaded.v]
           ELSE Raise(p, "JSONDecodeError") /\ UNCHANGED tokenData
    /\ UNCHANGED <<shared, inputs, wallabagUrl, token, phase, fileAtStart,
                   nowAtCheck>>

\* Line 112.
CheckExpiration(p) ==
    /\ pc[p] = "check"
    /\ IF ~DictHas(tokenData[p], <<"expiration">>)
       THEN Raise(p, "KeyError") /\ UNCHANGED nowAtCheck
       ELSE IF DictGet(tokenData[p], <<"expiration">>).t # "int"
       THEN Raise(p, "TypeError") /\ UNCHANGED nowAtCheck
       ELSE /\ nowAtCheck' = [nowAtCheck EXCEPT ![p] = Some(UnixTimestamp(clock))]
            /\ Goto(p, IF IsExpired(tokenData[p], UnixTimestamp(clock))
                       THEN "credentials" ELSE "return")
    /\ UNCHANGED <<shared, inputs, wallabagUrl, tokenData, token, phase, log,
                   fileAtStart, fileRead, readWritten>>

\* The wallabag_url of the token request: get_wallabag's, or the argument
\* when the command line names the class method itself.
TokenUrl(p) == IF phase[p] = "token" THEN wallabagUrl[p] ELSE argv[p][2]

\* Lines 56-62: the four get_env_var calls, in order.
GetCredentials(p) ==
    /\ pc[p] = "credentials"
    /\ LET id       == GetEnvVar(env[p], "CLIENT_ID", None)
           secret   == GetEnvVar(env[p], "CLIENT_SECRET", None)
           user     == GetEnvVar(env[p], "USERNAME", None)
           password == GetEnvVar(env[p], "PASSWORD", None)
       IN  IF id.exit THEN SysExit(p, id.message, 1)
           ELSE IF secret.exit THEN SysExit(p, secret.message, 1)
           ELSE IF user.exit THEN SysExit(p, user.message, 1)
           ELSE IF password.exit THEN SysExit(p, password.message, 1)
           ELSE Goto(p, "post_token")
    /\ UNCHANGED <<shared, inputs, wallabagUrl, tokenData, token, phase, log,
                   fileAtStart, fileRead, readWritten, nowAtCheck>>

\* Lines 63-70: the token request, the server's answer, and the record made
\* of it.  As the command itself, line 137, the record is dropped.
\* The failure, had the request been tried again.
TokenRequestFailedRetry(p) == Goto(p, "post_token")

\* urlopen raised (no answer, or an error status): nothing catches it.
TokenRequestFailed(p) == Raise(p, "URLError")

PostToken(p) ==
    /\ pc[p] = "post_token"
    /\ \E response \in TokenResponses :
          /\ log' = [log EXCEPT ![p] = Append(@, HttpEvent(
                        Post(TokenUrl(p) \o <<OAuthPath>>,
                             GrantData(env[p]["CLIENT_ID"][1],
                                       env[p]["CLIENT_SECRET"][1],
                                       env[p]["USERNAME"][1],
                                       env[p]["PASSWORD"][1]),
                             None),
                        phase[p], response.ok))]
          /\ IF ~response.ok
             THEN TokenRequestFailed(p) /\ UNCHANGED tokenData
             ELSE IF phase[p] = "token"
             THEN /\ Goto(p, "open")
                  /\ tokenData' = [tokenData EXCEPT ![p] =
                        TokenRecord(response.access_token,
                                    UnixTimestamp(clock) + response.expires_in)]
             ELSE Finish(p) /\ UNCHANGED tokenData
    /\ UNCHANGED <<shared, inputs, wallabagUrl, token, phase, fileAtStart,
                   fileRead, readWritten, nowAtCheck>>

\* Line 114: open(token_cache_file, "w") creates the file or cuts it to
\* nothing.
CacheOpen(p) ==
    /\ pc[p] = "open"
    /\ file' = FileOf(<<>>)
    /\ log' = [log EXCEPT ![p] = Append(@, FileEvent("write", phase[p]))]
    /\ Goto(p, "dump")
    /\ UNCHANGED <<clock, written, inputs, wallabagUrl, tokenData, token, phase,
                   fileAtStart, fileRead, readWritten, nowAtCheck>>

\* Line 115 and the end of the with block: the buffered text of json.dump is
\* written at offset 0 when the file is closed.
CacheDump(p) ==
    /\ pc[p] = "dump"
    /\ file' = FileOf(Overwrite(file.data, JsonDumps(tokenData[p])))
    /\ written' = Some([by |-> p, data |-> tokenData[p]])
    /\ Goto(p, "return")
    /\ UNCHANGED <<clock, inputs, wallabagUrl, tokenData, token, phase, log,
                   fileAtStart, fileRead, readWritten, nowAtCheck>>

\* Lines 116 and 123.
ReturnToken(p) ==
    /\ pc[p] = "return"
    /\ IF ~DictHas(tokenData[p], <<"token">>)
       THEN Raise(p, "KeyError") /\ UNCHANGED token
       ELSE /\ Goto(p, "dispatch")
            /\ token' = [token EXCEPT ![p] =
                            Some(PyToStr(DictGet(tokenData[p], <<"token">>)))]
    /\ UNCHANGED <<shared, inputs, wallabagUrl, tokenData, phase, log,
                   fileAtStart, fileRead, readWritten, nowAtCheck>>

\* Lines 134-137: getattr, signature, the arity check, and python's binding
\* of the arguments to the method's parameters.
Dispatch(p) ==
    /\ pc[p] = "dispatch"
    /\ LET command      == argv[p][1]
           command_args == Tail(argv[p])
           method       == Attribute(command)
       IN  IF ~method.found
           THEN Raise(p, "AttributeError") /\ UNCHANGED phase
           ELSE IF PrintUsageAndExitUnless(<<method.params = Len(command_args)>>)
           THEN SysExit(p, UsageText, 1) /\ UNCHANGED phase
           ELSE IF Len(command_args) # method.params
           THEN Raise(p, "TypeError") /\ UNCHANGED phase
           ELSE /\ phase' = [phase EXCEPT ![p] = "command"]
                /\ Goto(p, IF command = "add" THEN "add" ELSE "credentials")
    /\ UNCHANGED <<shared, inputs, wallabagUrl, tokenData, token, log,
                   fileAtStart, fileRead, readWritten, nowAtCheck>>

\* Lines 72-75: Wallabag.add posts the entry; the answer is read and dropped.
Add(p) ==
    /\ pc[p] = "add"
    /\ \E ok \in BOOLEAN :
          /\ log' = [log EXCEPT ![p] = Append(@, HttpEvent(
                        Post(wallabagUrl[p] \o <<EntriesPath>>,
                             << <<<<"url">>, PyStr(argv[p][2])>> >>,
                             token[p]),
                        phase[p], ok))]
          /\ IF ok THEN Finish(p) ELSE Raise(p, "URLError")
    /\ UNCHANGED <<shared, inputs, wallabagUrl, tokenData, token, phase,
                   fileAtStart, fileRead, readWritten, nowAtCheck>>

\* Time passes.
Tick ==
    /\ clock < MaxClock
    /\ clock' = clock + 1
    /\ UNCHANGED <<file, written, pc, inputs, wallabagUrl, tokenData, token,
                   phase, log, exitStatus, stdout, exc, fileAtStart, fileRead,
                   readWritten, nowAtCheck>>

\* ------------------------------------------------------ specifications

Step(p) ==
    \/ Main(p)
    \/ GetWallabag(p)
    \/ CacheExists(p)
    \/ CacheLoad(p)
    \/ CheckExpiration(p)
    \/ GetCredentials(p)
    \/ PostToken(p)
    \/ CacheOpen(p)
    \/ CacheDump(p)
    \/ ReturnToken(p)
    \/ Dispatch(p)
    \/ Add(p)

\* One user: invocations one after the other.
Next ==
    \/ Start(1, ArgvChoices, EnvChoices, MaxRuns)
    \/ Step(1)
    \/ Tick

Spec == Init /\ [][Next]_vars

\* Two invocations of `add <url>` at the same time, everything set.
ConcArgv == { <<"add", Url1>> }

ConcEnv == { AllSet }

NextConc ==
    \/ \E p \in Procs : Start(p, ConcArgv, ConcEnv, 1)
    \/ \E p \in Procs : Step(p)
    \/ Tick

SpecConc == Init /\ [][NextConc]_vars

\* ------------------------------------------- what the claims talk about

Required == <<"CLIENT_ID", "CLIENT_SECRET", "USERNAME", "PASSWORD">>

Message(var) == <<"Missing required environment variable: WALLABAG_", var>>

\* The command line is `add <url>`.
IsAddUrl(a) == Len(a) = 2 /\ a[1] = "add"

\* No arguments, a command other than add, or add without exactly one url.
UsageViolation(a) == ~IsAddUrl(a)

IsRead(e) == e.op = "read"

IsWrite(e) == e.op = "write"

\* A token request that get_oauth_token made.
IsRefresh(e) == IsTokenRequest(e) /\ e.phase = "token"

IsFailedRefresh(e) == IsRefresh(e) /\ ~e.ok

\* The record the invocation found in the cache: the file's, or line 104's.
Cached(p) ==
    IF fileRead[p] = None THEN NoTokenData ELSE JsonLoads(fileRead[p][1]).v

CachedExpiration(p) == DictGet(Cached(p), <<"expiration">>).n

\* Line 112 was reached and compared the cached expiration with the clock.
Checked(p) == nowAtCheck[p] # None

\* The cache file exists and is no record of a token and an expiration.
Malformed(f) ==
    /\ f.exists
    /\ \/ ~JsonLoads(f.data).ok
       \/ ~DictHas(JsonLoads(f.data).v, <<"expiration">>)
       \/ ~DictHas(JsonLoads(f.data).v, <<"token">>)

\* The first required variable, in the order of lines 58-61, that is unset
\* or empty; "" if there is none.
FirstMissing(e) ==
    IF \A i \in 1..Len(Required) : ~Falsy(e[Required[i]]) THEN ""
    ELSE Required[CHOOSE i \in 1..Len(Required) :
                     /\ Falsy(e[Required[i]])
                     /\ \A j \in 1..(i - 1) : ~Falsy(e[Required[j]])]

HasHeader(request, name, value) ==
    \E i \in 1..Len(request.headers) : request.headers[i] = <<name, value>>

\* ---------------------------------------------------------------- C1

\* C1: a usage violation (no arguments, a command other than add, add with
\* another number of urls than one) prints the usage text and exits with
\* status 1, and the run makes no network call at any point.
C1_UsageViolationExitsWithoutNetwork ==
    \A p \in Procs :
        (pc[p] # "idle" /\ UsageViolation(argv[p])) =>
            /\ SelectSeq(log[p], IsHttp) = <<>>
            /\ pc[p] = "done" =>
                  (stdout[p] = <<UsageText>> /\ exitStatus[p] = Some(1))

\* ---------------------------------------------------------------- C2

\* C2: in a run of `add <url>`, when the cache is absent or its expiration is at most the current
\* time, get_oauth_token makes exactly one token request, and on success
\* the file holds the new record, whose expiration is greater than the old
\* one and than the current time, and the new token is the one returned.
C2_ExpiredOrDueCacheIsRefreshed ==
    \A p \in Procs :
        (IsAddUrl(argv[p]) /\ Checked(p)
            /\ CachedExpiration(p) <= nowAtCheck[p][1]
            /\ token[p] # None) =>
            LET requests == SelectSeq(log[p], IsRefresh)
                new      == DictGet(tokenData[p], <<"expiration">>).n
            IN  /\ Len(requests) = 1
                /\ requests[1].ok
                /\ written = Some([by |-> p, data |-> tokenData[p]])
                /\ file = FileOf(JsonDumps(tokenData[p]))
                /\ new > CachedExpiration(p)
                /\ new > nowAtCheck[p][1]
                /\ token[p] = Some(DictGet(tokenData[p], <<"token">>).s)

\* ---------------------------------------------------------------- C3

\* C3: when the cached expiration is greater than the current time,
\* get_oauth_token makes no token request and does not write the cache
\* file, and the token it returns, and the bearer token of the entry
\* request, is the cached token.
C3_ValidCacheIsUsed ==
    \A p \in Procs :
        (Checked(p) /\ CachedExpiration(p) > nowAtCheck[p][1]) =>
            /\ SelectSeq(log[p], IsRefresh) = <<>>
            /\ SelectSeq(log[p], IsWrite) = <<>>
            /\ file = fileAtStart[p]
            /\ token[p] # None =>
                  token[p] = Some(PyToStr(DictGet(Cached(p), <<"token">>)))
            /\ \A i \in 1..Len(log[p]) :
                  IsEntriesRequest(log[p][i]) =>
                      HasHeader(log[p][i], "Authorization",
                                <<"Bearer ">>
                                \o PyToStr(DictGet(Cached(p), <<"token">>)))

C3_Witness ==
    \E p \in Procs :
        /\ Checked(p) /\ CachedExpiration(p) > nowAtCheck[p][1]
        /\ pc[p] = "done" /\ exitStatus[p] = Some(0)
        /\ \E i \in 1..Len(log[p]) : IsEntriesRequest(log[p][i])

\* ---------------------------------------------------------------- C4

C5_MalformedCacheIsRefreshed ==
    \A p \in Procs :
        (pc[p] # "idle" /\ IsAddUrl(argv[p]) /\ Malformed(fileAtStart[p])) =>
            /\ exc[p] \notin {"JSONDecodeError", "KeyError"}
            /\ pc[p] \in {"return", "dispatch", "add"} =>
                  SelectSeq(log[p], IsRefresh) # <<>>

\* ---------------------------------------------------------------- C6

\* The server url of the run: WALLABAG_URL, or the default.
ServerUrl(p) == IF env[p]["URL"] # None THEN env[p]["URL"][1] ELSE DefaultUrl

\* C6: a run of `add u` that obtained the token t issues exactly one
\* request to {server_url}/api/entries; its body is the json object
\* {"url": u} and its headers are Authorization: Bearer t and
\* Content-Type: application/json.
C6_AddPostsTheUrlOnce ==
    \A p \in Procs :
        (IsAddUrl(argv[p]) /\ token[p] # None) =>
            LET posts == SelectSeq(log[p], IsEntriesRequest)
            IN  /\ Len(posts) <= 1
                /\ pc[p] = "done" =>
                      /\ Len(posts) = 1
                      /\ posts[1].url = ServerUrl(p) \o <<EntriesPath>>
                      /\ JsonLoads(posts[1].body) =
                            [ok |-> TRUE,
                             v  |-> << <<<<"url">>, PyStr(argv[p][2])>> >>]
                      /\ HasHeader(posts[1], "Authorization",
                                   <<"Bearer ">> \o token[p][1])
                      /\ HasHeader(posts[1], "Content-Type",
                                   <<"application/json">>)

C6_Witness ==
    \E p \in Procs :
        /\ argv[p] = <<"add", Url2>>
        /\ pc[p] = "done" /\ exitStatus[p] = Some(0)
        /\ SelectSeq(log[p], IsRefresh) # <<>>
        /\ token[p] = Some(<<"b", "\"">>)
        /\ Len(SelectSeq(log[p], IsEntriesRequest)) = 1

\* ---------------------------------------------------------------- C7

\* C7: the record a refresh wrote to the cache file is what json.load reads
\* back from it, token and expiration alike, and an invocation that reads
\* it before it expires returns exactly that token.
C7_CacheRoundTrip ==
    /\ (written # None /\ file.data # <<>>) =>
          JsonLoads(file.data) = [ok |-> TRUE, v |-> written[1].data]
    /\ \A p \in Procs :
          readWritten[p] # None =>
              /\ JsonLoads(fileRead[p][1]) =
                    [ok |-> TRUE, v |-> readWritten[p][1].data]
              /\ (Checked(p) /\ token[p] # None
                    /\ DictGet(readWritten[p][1].data, <<"expiration">>).n
                         > nowAtCheck[p][1]) =>
                    token[p] =
                        Some(DictGet(readWritten[p][1].data, <<"token">>).s)

C7_Witness ==
    \E p \in Procs :
        /\ readWritten[p] # None
        /\ Checked(p)
        /\ DictGet(readWritten[p][1].data, <<"expiration">>).n > nowAtCheck[p][1]
        /\ token[p] = Some(<<"b", "\"">>)
        /\ SelectSeq(log[p], IsRefresh) = <<>>

\* ---------------------------------------------------------------- C8

\* C8: when the token request of get_oauth_token fails, the run ends with
\* an error: no second token request, no entry request, and the cache file
\* is as it was when the run started.
C8_FailedExchangeIsFatal ==
    \A p \in Procs :
        SelectSeq(log[p], IsFailedRefresh) # <<>> =>
            /\ pc[p] = "done"
            /\ exitStatus[p] = Some(1)
            /\ token[p] = None
            /\ Len(SelectSeq(log[p], IsTokenRequest)) = 1
            /\ SelectSeq(log[p], IsEntriesRequest) = <<>>
            /\ SelectSeq(log[p], IsWrite) = <<>>
            /\ file = fileAtStart[p]

C8_Witness ==
    \E p \in Procs :
        /\ SelectSeq(log[p], IsFailedRefresh) # <<>>
        /\ fileAtStart[p].exists
        /\ SelectSeq(log[p], IsRead) # <<>>
        /\ pc[p] = "done"

\* ---------------------------------------------------------------- C9

\* The place of an event in the order cache read, token request, cache
\* write, entry request.
Rank(e) ==
    IF IsRead(e) THEN 1
    ELSE IF IsTokenRequest(e) THEN 2
    ELSE IF IsWrite(e) THEN 3
    ELSE 4

\* C9: a run makes at most two network calls and at most two accesses to
\* the cache file, in the order cache read, token request, cache write,
\* entry request.
C9_AtMostTwoCallsInFixedOrder ==
    \A p \in Procs :
        /\ Len(SelectSeq(log[p], IsHttp)) <= 2
        /\ Len(log[p]) - Len(SelectSeq(log[p], IsHttp)) <= 2
        /\ \A i, j \in 1..Len(log[p]) :
              i < j => Rank(log[p][i]) < Rank(log[p][j])

\* ---------------------------------------------------------------- C10

IsPrefix(a, b) == Len(a) <= Len(b) /\ SubSeq(b, 1, Len(a)) = a

\* C10: nothing locks the cache file.  Whenever no invocation is between
\* line 114 and the end of the with block, the file starts with the record
\* of the invocation that wrote last; and an invocation asks for a token
\* only after it found the cache absent or expired.
C10_LastWriterWins ==
    /\ (written # None /\ \A q \in Procs : pc[q] # "dump") =>
          IsPrefix(JsonDumps(written[1].data), file.data)
    /\ \A p \in Procs :
          SelectSeq(log[p], IsRefresh) # <<>> =>
              (Checked(p) /\ CachedExpiration(p) < nowAtCheck[p][1])

\* Both invocations found the same stale cache, both asked for a token and
\* both wrote the file, which holds the record of the one that wrote last.
C10_Witness ==
    /\ \A p \in Procs :
          /\ pc[p] = "done"
          /\ fileRead[p] = Some(fileAtStart[p].data)
          /\ Len(SelectSeq(log[p], IsRefresh)) = 1
          /\ Len(SelectSeq(log[p], IsWrite)) = 1
    /\ fileAtStart[1] = fileAtStart[2]
    /\ written # None
    /\ file = FileOf(JsonDumps(written[1].data))
    /\ tokenData[1] # tokenData[2]

====
